---- MODULE Spec2Model ----
(***************************************************************************)
(* Model of the authenticated-session coordinator of RowtConsole           *)
(* (src/src/RowtConsole.ts): the request interceptor that signs calls, the *)
(* response interceptor that routes a first 401 to the single-flight token *)
(* refresh, the subscriber queue, refreshToken, login, logout and          *)
(* manualRefreshToken.                                                     *)
(*                                                                         *)
(* JavaScript runs the code on one thread.  A response delivered by the    *)
(* transport is a task; the promise reactions it triggers (the then /      *)
(* catch / finally chain of the refresh) are microtasks that run before    *)
(* the next response is delivered.  The model keeps the chain's steps as   *)
(* separate actions and delivers no response while the chain has a step    *)
(* queued.                                                                 *)
(***************************************************************************)
EXTENDS Integers, Sequences, FiniteSets, TLC

\* ---- bounds ----
NCalls == 2          \* caller-issued operations per behaviour (slots 1..NCalls)
MaxTok == 2          \* distinct token values the server can issue (1..MaxTok)

\* ---- identifiers ----
RefreshReq == 0      \* slot of the POST /auth/refresh sent by the failure-triggered refresh
Calls == 1..NCalls
Reqs == 0..NCalls
NoTok == 0           \* absent / falsy token (null, undefined, "")
Tokens == 1..MaxTok

VARIABLES
  localStorage,        \* [access_token, refresh_token], NoTok when the key is absent
  isRefreshing,        \* RowtConsole.isRefreshing
  refreshSubscribers,  \* RowtConsole.refreshSubscribers: sequence of request slots
  call,                \* per request slot: the operation and its axios config/outcome
  chain,               \* position of refreshToken().then().catch().finally()
  newToken,            \* value refreshToken() resolved with (argument of onRefreshed)
  attempts,            \* history: times the 401 handler set isRefreshing = true
  exchanges,           \* history: POST /auth/refresh put on the transport by those attempts
  notified             \* history: slots in the order the running drain invoked their continuation

vars == <<localStorage, isRefreshing, refreshSubscribers, call, chain, newToken,
          attempts, exchanges, notified>>

NoTokens == [access_token |-> NoTok, refresh_token |-> NoTok]

\* A request slot before use.  kind: which operation owns the request;
\* st: idle / sent (on the transport) / pending (in refreshSubscribers) / done;
\* retry: config._retry; auth: the Authorization bearer of the last send;
\* resp, body: the transport's answer to the last send and the tokens of
\* its body; result: what the operation settled with; sends, subs, succ,
\* errs: history counters (times put on the transport, pushed onto
\* refreshSubscribers, onSuccess / onError invoked); arg: the required
\* identifier the method was invoked with ("none" when it takes none).
FreshCall ==
  [kind |-> "none", st |-> "idle", retry |-> FALSE, auth |-> NoTok,
   resp |-> "none", body |-> <<NoTok, NoTok>>, result |-> "none",
   sends |-> 0, subs |-> 0, succ |-> 0, errs |-> 0, arg |-> "none"]

\* The sequential code is written as transformations of a record of the
\* fields it reads and writes.
Cur ==
  [ls |-> localStorage, ir |-> isRefreshing, subs |-> refreshSubscribers,
   call |-> call, chain |-> chain, tok |-> newToken,
   attempts |-> attempts, exchanges |-> exchanges, log |-> notified]

Becomes(S) ==
  /\ localStorage' = S.ls
  /\ isRefreshing' = S.ir
  /\ refreshSubscribers' = S.subs
  /\ call' = S.call
  /\ chain' = S.chain
  /\ newToken' = S.tok
  /\ attempts' = S.attempts
  /\ exchanges' = S.exchanges
  /\ notified' = S.log

\* ---- token store ----
clearTokens(S) == [S EXCEPT !.ls = NoTokens]

storeTokens(S, a, r) == [S EXCEPT !.ls = [access_token |-> a, refresh_token |-> r]]

\* Variant of the request interceptor that never attaches the stored token.
RequestInterceptor_Unsigned(S, c) ==
  [S EXCEPT !.call[c].st = "sent",
            !.call[c].resp = "none",
            !.call[c].body = <<NoTok, NoTok>>,
            !.call[c].sends = @ + 1]

\* ---- request interceptor + hand-over to the transport ----
\* The bearer is the stored access token when there is one; otherwise the
\* header keeps whatever the config already carries.
RequestInterceptor(S, c) ==
  [S EXCEPT !.call[c].auth = IF S.ls.access_token # NoTok
                             THEN S.ls.access_token ELSE @,
            !.call[c].st = "sent",
            !.call[c].resp = "none",
            !.call[c].body = <<NoTok, NoTok>>,
            !.call[c].sends = @ + 1]

\* ---- subscriber queue ----
\* Variant of subscribeTokenRefresh that puts the caller at the front.
subscribeTokenRefresh_Prepend(S, c) ==
  [S EXCEPT !.subs = <<c>> \o @,
            !.call[c].st = "pending",
            !.call[c].subs = @ + 1]

subscribeTokenRefresh(S, c) ==
  [S EXCEPT !.subs = Append(@, c),
            !.call[c].st = "pending",
            !.call[c].subs = @ + 1]

\* Variant of StartRefresh without the "no refresh token" check: the
\* exchange is sent even when the store holds no refresh token.
StartRefresh_NoCheck(S) ==
  LET S1 == [S EXCEPT !.ir = TRUE,
                      !.attempts = @ + 1,
                      !.call[RefreshReq] = [FreshCall EXCEPT !.kind = "auto"]]
  IN [RequestInterceptor(S1, RefreshReq) EXCEPT !.chain = "wait",
                                                 !.exchanges = @ + 1]

\* Variant of StartRefresh that does not set isRefreshing.
StartRefresh_NoSet(S) ==
  LET S1 == [S EXCEPT !.attempts = @ + 1,
                      !.call[RefreshReq] = [FreshCall EXCEPT !.kind = "auto"]]
  IN IF S1.ls.refresh_token = NoTok
     THEN [S1 EXCEPT !.chain = "catch", !.call[RefreshReq].st = "done"]
     ELSE [RequestInterceptor(S1, RefreshReq) EXCEPT !.chain = "wait",
                                                      !.exchanges = @ + 1]

\* refreshToken up to its await, run for the failure-triggered refresh:
\* without a stored refresh token it throws (the chain goes to catch),
\* otherwise POST /auth/refresh is sent through the same client.
StartRefresh(S) ==
  LET S1 == [S EXCEPT !.ir = TRUE,
                      !.attempts = @ + 1,
                      !.call[RefreshReq] = [FreshCall EXCEPT !.kind = "auto"]]
  IN IF S1.ls.refresh_token = NoTok
     THEN [S1 EXCEPT !.chain = "catch", !.call[RefreshReq].st = "done"]
     ELSE [RequestInterceptor(S1, RefreshReq) EXCEPT !.chain = "wait",
                                                      !.exchanges = @ + 1]

\* Variant of refreshToken_tail that returns the access token without
\* writing the pair to the store.
refreshToken_tail_NoStore(S, a, r) ==
  IF a = NoTok \/ r = NoTok
  THEN [ok |-> FALSE, S |-> S]
  ELSE [ok |-> TRUE, S |-> S]

\* Variant of refreshToken_tail without the "Invalid token response" test:
\* whatever the body holds is written.
refreshToken_tail_NoValidate(S, a, r) == [ok |-> TRUE, S |-> storeTokens(S, a, r)]

\* refreshToken after its await resolved with a 2xx body {a, r}.
\* ok = TRUE when both tokens are present and were written.
refreshToken_tail(S, a, r) ==
  IF a = NoTok \/ r = NoTok
  THEN [ok |-> FALSE, S |-> S]
  ELSE [ok |-> TRUE, S |-> storeTokens(S, a, r)]

\* The code awaiting request c resumes with outcome o ("ok", "401",
\* "other", "refreshFailed") and, for "ok", the body tokens a, r.  The
\* config of a settled request is dead: its header is dropped.
Settle(S, c, o, a, r) ==
  LET k == S.call[c].kind
      D == [S EXCEPT !.call[c].st = "done", !.call[c].auth = NoTok]
      err == IF o = "401" THEN "err401"
             ELSE IF o = "other" THEN "errOther" ELSE "refreshFailed"
  IN CASE k = "api" ->
            [D EXCEPT !.call[c].result = IF o = "ok" THEN "ok" ELSE err]
       [] k = "login" ->
            IF o = "ok"
            THEN [storeTokens(D, a, r) EXCEPT !.call[c].result = "ok"]
            ELSE [D EXCEPT !.call[c].result = err]
       [] k = "logout" ->
            [clearTokens(D) EXCEPT !.call[c].result = "ok"]
       [] k = "manual" ->
            IF o = "ok" /\ refreshToken_tail(D, a, r).ok
            THEN [refreshToken_tail(D, a, r).S EXCEPT !.call[c].result = "true"]
            ELSE [clearTokens(D) EXCEPT !.call[c].result = "false"]
       [] k = "auto" ->
            IF o = "ok" /\ refreshToken_tail(D, a, r).ok
            THEN [refreshToken_tail(D, a, r).S EXCEPT !.chain = "then", !.tok = a]
            ELSE [D EXCEPT !.chain = "catch"]
       [] OTHER -> D

\* Variant of the response interceptor without the config._retry guard.
ResponseInterceptor_NoRetryGuard(S, c, o, a, r) ==
  LET R == [S EXCEPT !.call[c].resp = o, !.call[c].body = <<a, r>>]
  IN IF o = "ok" THEN Settle(R, c, o, a, r)
     ELSE IF o = "401"
     THEN LET S1 == [R EXCEPT !.call[c].retry = TRUE]
              S2 == IF ~S1.ir THEN StartRefresh(S1) ELSE S1
          IN subscribeTokenRefresh(S2, c)
     ELSE Settle(R, c, o, a, r)

\* Variant of the response interceptor without the status === 401 test:
\* any first error engages the refresh.
ResponseInterceptor_AnyError(S, c, o, a, r) ==
  LET R == [S EXCEPT !.call[c].resp = o, !.call[c].body = <<a, r>>]
  IN IF o = "ok" THEN Settle(R, c, o, a, r)
     ELSE IF ~R.call[c].retry
     THEN LET S1 == [R EXCEPT !.call[c].retry = TRUE]
              S2 == IF ~S1.ir THEN StartRefresh(S1) ELSE S1
          IN subscribeTokenRefresh(S2, c)
     ELSE Settle(R, c, o, a, r)

\* Variant of the response interceptor without the isRefreshing test: every
\* first 401 starts a refresh.
ResponseInterceptor_NoFlagCheck(S, c, o, a, r) ==
  LET R == [S EXCEPT !.call[c].resp = o, !.call[c].body = <<a, r>>]
  IN IF o = "ok" THEN Settle(R, c, o, a, r)
     ELSE IF o = "401" /\ ~R.call[c].retry
     THEN LET S1 == [R EXCEPT !.call[c].retry = TRUE]
          IN subscribeTokenRefresh(StartRefresh(S1), c)
     ELSE Settle(R, c, o, a, r)

\* ---- response interceptor ----
ResponseInterceptor(S, c, o, a, r) ==
  LET R == [S EXCEPT !.call[c].resp = o, !.call[c].body = <<a, r>>]
  IN IF o = "ok" THEN Settle(R, c, o, a, r)
     ELSE IF o = "401" /\ ~R.call[c].retry
     THEN LET S1 == [R EXCEPT !.call[c].retry = TRUE]
              S2 == IF ~S1.ir THEN StartRefresh(S1) ELSE S1
          IN subscribeTokenRefresh(S2, c)
     ELSE Settle(R, c, o, a, r)

\* ---- drains ----
RECURSIVE NotifySuccess(_, _, _)
NotifySuccess(S, q, t) ==
  IF q = <<>> THEN S
  ELSE LET c == Head(q)
           S1 == [S EXCEPT !.call[c].succ = @ + 1, !.call[c].auth = t,
                           !.log = Append(@, c)]
       IN NotifySuccess(RequestInterceptor(S1, c), Tail(q), t)

\* Variant of onRefreshed that notifies but keeps the list.
onRefreshed_NoClear(S, t) == NotifySuccess(S, S.subs, t)

onRefreshed(S, t) == [NotifySuccess(S, S.subs, t) EXCEPT !.subs = <<>>]

RECURSIVE NotifyError(_, _)
NotifyError(S, q) ==
  IF q = <<>> THEN S
  ELSE LET c == Head(q)
           S1 == [S EXCEPT !.call[c].errs = @ + 1, !.log = Append(@, c)]
       IN NotifyError(Settle(S1, c, "refreshFailed", NoTok, NoTok), Tail(q))

onRefreshFailed(S) == [NotifyError(S, S.subs) EXCEPT !.subs = <<>>]

\* ---- operations ----
\* Slots are taken in order (they are interchangeable).
CanStart(c) ==
  /\ call[c].st = "idle"
  /\ \A d \in Calls : d < c => call[d].st # "idle"

\* Any pass-through API Surface method (getProfile, createLink, ...).
ApiCall(c) ==
  /\ CanStart(c)
  /\ Becomes(RequestInterceptor([Cur EXCEPT !.call[c].kind = "api"], c))

login(c) ==
  /\ CanStart(c)
  /\ Becomes(RequestInterceptor([Cur EXCEPT !.call[c].kind = "login"], c))

logout(c) ==
  /\ CanStart(c)
  /\ Becomes(RequestInterceptor([Cur EXCEPT !.call[c].kind = "logout"], c))

manualRefreshToken(c) ==
  /\ CanStart(c)
  /\ LET S1 == [Cur EXCEPT !.call[c].kind = "manual"]
     IN IF S1.ls.refresh_token = NoTok
        THEN Becomes([clearTokens(S1) EXCEPT !.call[c].st = "done",
                                             !.call[c].result = "false"])
        ELSE Becomes(RequestInterceptor(S1, c))

\* No response is delivered while the refresh chain has a reaction queued.
TaskTurn == chain \in {"none", "wait"}

BodyTokens(k) ==
  IF k = "login" THEN Tokens \X Tokens
  ELSE IF k \in {"manual", "auto"} THEN (0..MaxTok) \X (0..MaxTok)
  ELSE {<<NoTok, NoTok>>}

\* The transport answers request c.
RespondOk(c) ==
  /\ TaskTurn
  /\ call[c].st = "sent"
  /\ \E b \in BodyTokens(call[c].kind) :
       Becomes(ResponseInterceptor(Cur, c, "ok", b[1], b[2]))

Respond401(c) ==
  /\ TaskTurn
  /\ call[c].st = "sent"
  /\ Becomes(ResponseInterceptor(Cur, c, "401", NoTok, NoTok))

RespondOther(c) ==
  /\ TaskTurn
  /\ call[c].st = "sent"
  /\ Becomes(ResponseInterceptor(Cur, c, "other", NoTok, NoTok))

\* .then((newToken) => this.onRefreshed(newToken))
ThenStep ==
  /\ chain = "then"
  /\ Becomes([onRefreshed(Cur, newToken) EXCEPT !.chain = "finally"])

\* .catch((err) => { this.clearTokens(); this.onRefreshFailed(err); })
CatchStep ==
  /\ chain = "catch"
  /\ Becomes([onRefreshFailed(clearTokens(Cur)) EXCEPT !.chain = "finally"])

\* .finally(() => { this.isRefreshing = false; })
\* The settled refresh request is dropped with the chain.
FinallyStep ==
  /\ chain = "finally"
  /\ Becomes([Cur EXCEPT !.ir = FALSE, !.chain = "none",
                          !.call[RefreshReq] = FreshCall, !.log = <<>>])

StoredPairs ==
  {NoTokens} \cup {[access_token |-> a, refresh_token |-> r] : a \in Tokens, r \in Tokens}

Init ==
  /\ localStorage \in StoredPairs
  /\ isRefreshing = FALSE
  /\ refreshSubscribers = <<>>
  /\ call = [c \in Reqs |-> FreshCall]
  /\ chain = "none"
  /\ newToken = NoTok
  /\ attempts = 0
  /\ exchanges = 0
  /\ notified = <<>>

Next ==
  \/ \E c \in Calls : ApiCall(c)
  \/ \E c \in Calls : login(c)
  \/ \E c \in Calls : logout(c)
  \/ \E c \in Calls : manualRefreshToken(c)
  \/ \E c \in Reqs : RespondOk(c)
  \/ \E c \in Reqs : Respond401(c)
  \/ \E c \in Reqs : RespondOther(c)
  \/ ThenStep
  \/ CatchStep
  \/ FinallyStep

Spec == Init /\ [][Next]_vars

\* The transport answers every request it is given and queued promise
\* reactions run.
Fairness ==
  /\ \A c \in Reqs : WF_vars(RespondOk(c) \/ Respond401(c) \/ RespondOther(c))
  /\ WF_vars(ThenStep)
  /\ WF_vars(CatchStep)
  /\ WF_vars(FinallyStep)

FairSpec == Spec /\ Fairness

TypeOK ==
  /\ localStorage \in [access_token : 0..MaxTok, refresh_token : 0..MaxTok]
  /\ isRefreshing \in BOOLEAN
  /\ chain \in {"none", "wait", "then", "catch", "finally"}
  /\ \A i \in 1..Len(refreshSubscribers) : refreshSubscribers[i] \in Reqs

\* ---- vocabulary of the claims ----
ErrOf(o) == IF o = "401" THEN "err401" ELSE IF o = "other" THEN "errOther" ELSE "ok"

\* Slots in refreshSubscribers.
Subscribed == {refreshSubscribers[i] : i \in 1..Len(refreshSubscribers)}

\* The transport's answer to the current send of c arrives in this step.
Answered(c) == call[c].st = "sent" /\ call[c].resp = "none" /\ call'[c].resp # "none"

\* C3: each call is put on the transport at most twice and registered as a
\* Pending Caller at most once; a retried call answered 401 settles at once,
\* an API call or login with that 401 as its error, without starting a
\* refresh and without registering again.
C3_AtMostOneRetry ==
  [][\A c \in Reqs :
       /\ call'[c].sends <= 2
       /\ call'[c].subs <= 1
       /\ (Answered(c) /\ call[c].retry /\ call'[c].resp = "401") =>
            /\ call'[c].st = "done"
            /\ call'[c].sends = call[c].sends
            /\ call'[c].subs = call[c].subs
            /\ call[c].kind \in {"api", "login"} => call'[c].result = "err401"
            /\ isRefreshing' = isRefreshing
            /\ refreshSubscribers' = refreshSubscribers
            /\ attempts' = attempts
            /\ exchanges' = exchanges]_vars

C3_Witness ==
  \E c \in Calls : /\ call[c].kind = "api" /\ call[c].st = "done"
                   /\ call[c].retry /\ call[c].sends = 2 /\ call[c].succ = 1
                   /\ call[c].result = "err401"

\* C4: when the refresh exchange returns a pair with access token T2, the
\* store holds that pair before the drain; the drain notifies every
\* registered Pending Caller through onSuccess only, re-sends each call with
\* bearer T2 and empties the list; a re-sent API call then settles with the
\* outcome of the retry.
C4_RefreshSuccess ==
  [][/\ (chain = "wait" /\ chain' = "then") =>
          /\ call'[RefreshReq].body[1] # NoTok /\ call'[RefreshReq].body[2] # NoTok
          /\ localStorage' = [access_token |-> call'[RefreshReq].body[1],
                              refresh_token |-> call'[RefreshReq].body[2]]
          /\ newToken' = call'[RefreshReq].body[1]
          /\ refreshSubscribers' = refreshSubscribers
     /\ (chain = "then" /\ chain' # "then") =>
          /\ localStorage = [access_token |-> call[RefreshReq].body[1],
                             refresh_token |-> call[RefreshReq].body[2]]
          /\ localStorage.access_token = newToken
          /\ localStorage' = localStorage
          /\ refreshSubscribers' = <<>>
          /\ \A c \in Subscribed :
               /\ call'[c].st = "sent"
               /\ call'[c].auth = newToken
               /\ call'[c].sends = call[c].sends + 1
               /\ call'[c].succ = call[c].succ + 1
               /\ call'[c].errs = call[c].errs
     /\ \A c \in Calls :
          (call[c].kind = "api" /\ call[c].succ = 1 /\ Answered(c)) =>
             /\ call'[c].st = "done"
             /\ call'[c].result = ErrOf(call'[c].resp)]_vars

C4_Witness ==
  /\ chain = "finally"
  /\ call[RefreshReq].resp = "ok"
  /\ \A c \in Calls : /\ call[c].st = "sent" /\ call[c].succ = 1
                      /\ call[c].auth = newToken /\ call[c].sends = 2

\* C5: a refresh started while the store holds no refresh token sends no
\* exchange; its starter is registered before the failure is delivered; the
\* failure reaches every Pending Caller through onError only, the calls are
\* settled without being re-sent, and the store then holds no token.
C5_NoRefreshToken ==
  [][/\ (~isRefreshing /\ isRefreshing' /\ localStorage.refresh_token = NoTok) =>
          /\ exchanges' = exchanges
          /\ call'[RefreshReq].sends = 0
          /\ chain' = "catch"
          /\ refreshSubscribers' # <<>>
     /\ (chain = "catch" /\ call[RefreshReq].sends = 0 /\ chain' # "catch") =>
          /\ refreshSubscribers # <<>>
          /\ refreshSubscribers' = <<>>
          /\ localStorage' = NoTokens
          /\ exchanges' = exchanges
          /\ \A c \in Subscribed :
               /\ call'[c].st = "done"
               /\ call'[c].errs = call[c].errs + 1
               /\ call'[c].succ = call[c].succ
               /\ call'[c].sends = call[c].sends
               /\ call[c].kind \in {"api", "login"} =>
                    call'[c].result = "refreshFailed"]_vars

C5_Witness ==
  /\ chain = "finally"
  /\ call[RefreshReq].kind = "auto" /\ call[RefreshReq].sends = 0
  /\ exchanges = 0
  /\ localStorage = NoTokens
  /\ \A c \in Calls : /\ call[c].kind = "api" /\ call[c].errs = 1
                      /\ call[c].result = "refreshFailed" /\ call[c].sends = 1

\* C7: a request answered ok or with an error other than 401 settles in
\* that step, starts no refresh, registers no Pending Caller and leaves
\* isRefreshing and refreshSubscribers unchanged; an API call gets the
\* answer as its result and leaves the Token Store unchanged.
C7_PassThrough ==
  [][\A c \in Reqs :
       (Answered(c) /\ call'[c].resp \in {"ok", "other"}) =>
          /\ call'[c].st = "done"
          /\ call'[c].subs = call[c].subs
          /\ call'[c].retry = call[c].retry
          /\ isRefreshing' = isRefreshing
          /\ refreshSubscribers' = refreshSubscribers
          /\ attempts' = attempts
          /\ exchanges' = exchanges
          /\ call[c].kind = "api" =>
               /\ call'[c].result = ErrOf(call'[c].resp)
               /\ localStorage' = localStorage]_vars

C7_Witness ==
  /\ \E c \in Calls : /\ call[c].kind = "api" /\ call[c].st = "done"
                      /\ call[c].resp = "other" /\ call[c].result = "errOther"
                      /\ ~call[c].retry
  /\ \E c \in Calls : /\ call[c].kind = "api" /\ call[c].st = "done"
                      /\ call[c].resp = "ok" /\ call[c].result = "ok"
                      /\ ~call[c].retry
  /\ attempts = 0 /\ localStorage # NoTokens

\* The failure-triggered POST /auth/refresh has been answered with a
\* failure: an error status, or a 2xx body lacking a token.
RefreshAnsweredFailure ==
  /\ call[RefreshReq].kind = "auto"
  /\ \/ call[RefreshReq].resp \in {"401", "other"}
     \/ /\ call[RefreshReq].resp = "ok"
        /\ (call[RefreshReq].body[1] = NoTok \/ call[RefreshReq].body[2] = NoTok)

\* Once the refresh request waits in refreshSubscribers, no step of the
\* program removes it or any other subscriber: the list is drained only by
\* the then / catch reactions of that same request.
SelfSubscribedIsPermanent ==
  [][call[RefreshReq].st = "pending" =>
       /\ call'[RefreshReq].st = "pending"
       /\ isRefreshing'
       /\ \A c \in Subscribed : c \in {refreshSubscribers'[i] : i \in 1..Len(refreshSubscribers')}
       /\ \A c \in Subscribed : call'[c].st = "pending"]_vars

\* C1: callers that got a 401 share one refresh: every refresh attempt sends
\* at most one exchange, the callers waiting on an attempt that has a
\* refresh token wait on exactly one exchange, and every API call waiting
\* on the refresh eventually settles.
C1_SingleFlight ==
  /\ [](exchanges <= attempts)
  /\ [](\A c \in Calls : (call[c].st = "pending" /\ chain = "wait") =>
                            call[RefreshReq].sends = 1)
  /\ \A c \in Calls :
       (call[c].kind = "api" /\ call[c].st = "pending") ~> (call[c].st = "done")

\* C2: every request pushed onto refreshSubscribers eventually has exactly
\* one of onSuccess / onError invoked, and never more than one invocation.
C2_ExactlyOnce ==
  /\ [](\A c \in Reqs : call[c].succ + call[c].errs <= call[c].subs)
  /\ \A c \in Reqs :
       (call[c].subs = 1) ~> (call[c].succ + call[c].errs = 1)

\* C6: when the refresh exchange is answered with a failure (401 included,
\* or a body lacking a token) the catch reaction is queued; it clears the
\* store, notifies every Pending Caller through onError and empties the
\* list; the finally reaction after it sets isRefreshing back to false.
C6_RefreshRejected ==
  [][/\ (Answered(RefreshReq) /\ RefreshAnsweredFailure') => chain' = "catch"
     /\ (chain = "catch" /\ chain' # "catch") =>
          /\ chain' = "finally"
          /\ localStorage' = NoTokens
          /\ refreshSubscribers' = <<>>
          /\ isRefreshing'
          /\ \A c \in Subscribed : /\ call'[c].errs = call[c].errs + 1
                                   /\ call'[c].succ = call[c].succ
     /\ (chain = "finally" /\ chain' # "finally") =>
          /\ ~isRefreshing'
          /\ refreshSubscribers' = <<>>]_vars

\* C8: every started operation eventually settles with a result, and a
\* settled operation keeps that one result.
C8_EverySettles ==
  /\ [][\A c \in Calls : call[c].st = "done" => call'[c] = call[c]]_vars
  /\ \A c \in Calls :
       (call[c].st \in {"sent", "pending"}) ~>
          (call[c].st = "done" /\ call[c].result # "none")

\* C9: every logout eventually returns "Logout successful", and when it
\* returns the store holds neither token.
C9_LogoutCleanup ==
  /\ [][\A c \in Calls :
          (call[c].kind = "logout" /\ call[c].st # "done" /\ call'[c].st = "done") =>
             /\ localStorage' = NoTokens
             /\ call'[c].result = "ok"]_vars
  /\ \A c \in Calls : (call[c].kind = "logout") ~> (call[c].st = "done")

\* C10: no step of manualRefreshToken changes refreshSubscribers or
\* isRefreshing, and its request is never left waiting in the list.
C10_ManualRefreshIsolated ==
  [][\A c \in Calls :
       (call'[c].kind = "manual" /\ call'[c] # call[c]) =>
          /\ isRefreshing' = isRefreshing
          /\ refreshSubscribers' = refreshSubscribers
          /\ call'[c].st # "pending"]_vars

\* C11: every request put on the transport carries the access token the
\* store holds at that moment, and none when the store holds none; a step
\* that only signs and sends a new call leaves the Token Store,
\* isRefreshing and refreshSubscribers unchanged.
C11_RequestSigning ==
  [][\A c \in Reqs :
       /\ (call'[c].sends > call[c].sends) =>
            /\ call'[c].st = "sent"
            /\ call'[c].auth = localStorage.access_token
            /\ localStorage' = localStorage
       /\ (c \in Calls /\ call[c].st = "idle" /\ call'[c].st = "sent") =>
            /\ isRefreshing' = isRefreshing
            /\ refreshSubscribers' = refreshSubscribers
            /\ attempts' = attempts]_vars

C11_Witness ==
  /\ \E c \in Calls : /\ call[c].st = "sent" /\ call[c].sends = 2
                      /\ call[c].auth # NoTok
                      /\ call[c].auth = localStorage.access_token
  /\ \E c \in Calls : /\ call[c].st = "sent" /\ call[c].sends = 1
                      /\ call[c].auth = localStorage.access_token

\* ---- API Surface methods that take a required identifier ----
\* The identifier as the method sees it: falsy ("empty": "", undefined) or not.
IdArgs == {"empty", "id"}

\* getLinksByProjectId, and likewise getProjectById, getAnalytics,
\* getAnalyticsBreakdown and regenerateApiKey: if (!projectId) throw.
getLinksByProjectId(c, id) ==
  /\ CanStart(c)
  /\ LET S1 == [Cur EXCEPT !.call[c].kind = "api", !.call[c].arg = id]
     IN IF id = "empty"
        THEN Becomes([S1 EXCEPT !.call[c].st = "done",
                                !.call[c].result = "errValidation"])
        ELSE Becomes(RequestInterceptor(S1, c))

\* getUserUsage and getUserTier: the userId goes into the body as it is.
getUserUsage(c, id) ==
  /\ CanStart(c)
  /\ Becomes(RequestInterceptor([Cur EXCEPT !.call[c].kind = "api",
                                            !.call[c].arg = id], c))

NextApi ==
  \/ Next
  \/ \E c \in Calls, id \in IdArgs : getLinksByProjectId(c, id)
  \/ \E c \in Calls, id \in IdArgs : getUserUsage(c, id)

SpecApi == Init /\ [][NextApi]_vars

\* C12: an operation invoked with a missing or empty required identifier
\* fails with a validation error before any request is sent and leaves the
\* Token Store and the refresh state unchanged.
C12_ValidationFailsFast ==
  [][\A c \in Calls :
       (call[c].st = "idle" /\ call'[c].arg = "empty") =>
          /\ call'[c].st = "done"
          /\ call'[c].result = "errValidation"
          /\ call'[c].sends = 0
          /\ localStorage' = localStorage
          /\ isRefreshing' = isRefreshing
          /\ refreshSubscribers' = refreshSubscribers]_vars

\* Requests POST /auth/refresh that are on the transport.
OutstandingRefresh ==
  {c \in Reqs : call[c].kind \in {"auto", "manual"} /\ call[c].st = "sent"}

\* C13 as stated: at most one POST /auth/refresh is outstanding, whoever
\* issued it.
C13_OneRefreshOutstanding == Cardinality(OutstandingRefresh) <= 1

\* C13 as amended: at most one failure-triggered POST /auth/refresh is
\* outstanding: an attempt puts its exchange on the transport only when no
\* exchange of an earlier attempt is on the transport or suspended, and it
\* sends one exchange; exchanges of manualRefreshToken are not counted.
C13_OneAutoRefreshOutstanding ==
  [][(exchanges' # exchanges) =>
       /\ exchanges' = exchanges + 1
       /\ call[RefreshReq].st \notin {"sent", "pending"}
       /\ call'[RefreshReq].st = "sent"
       /\ call'[RefreshReq].sends = 1]_vars

C13_Witness ==
  /\ call[RefreshReq].st = "sent"
  /\ \E c \in Calls : call[c].kind = "manual" /\ call[c].st = "sent"
  /\ \E c \in Calls : call[c].kind = "api" /\ call[c].st = "pending"

\* C14: refreshSubscribers is non-empty only while isRefreshing is true, and
\* it is empty from the drain until isRefreshing is reset: nobody registers
\* between the then / catch reaction and the finally reaction.
C14_SubscribersOnlyWhileRefreshing ==
  /\ refreshSubscribers # <<>> => isRefreshing
  /\ chain = "finally" => refreshSubscribers = <<>>
  /\ chain = "none" => (refreshSubscribers = <<>> /\ ~isRefreshing)

C14_Witness ==
  /\ chain = "none" /\ ~isRefreshing /\ attempts = 1
  /\ \E c \in Calls : call[c].st = "sent" /\ call[c].succ = 1
  /\ \E c \in Calls : call[c].st = "sent" /\ call[c].sends = 1 /\ call[c].subs = 0

\* C15: the 401 handler tests isRefreshing and sets it in one step: an
\* attempt starts only from isRefreshing = false with no refresh chain
\* alive, the same step sets isRefreshing, and a first 401 that finds it
\* true starts nothing; so at most one failure-triggered attempt is in
\* progress.
C15_NoOverlappingAttempts ==
  [][/\ (attempts' # attempts) =>
          /\ attempts' = attempts + 1
          /\ ~isRefreshing /\ isRefreshing'
          /\ chain = "none" /\ chain' # "none"
     /\ \A c \in Reqs :
          (Answered(c) /\ call'[c].resp = "401" /\ isRefreshing) =>
             /\ attempts' = attempts
             /\ exchanges' = exchanges
             /\ chain' = chain]_vars

C15_Witness ==
  /\ attempts = 1 /\ isRefreshing /\ chain = "wait"
  /\ \A c \in Calls : call[c].kind = "api" /\ call[c].st = "pending"

\* C16: every refresh attempt ends with isRefreshing back at false; the
\* attempt sends its exchange at most once; a first 401 that arrives while
\* isRefreshing is false starts a new attempt.
C16_Recovery ==
  /\ isRefreshing ~> ~isRefreshing
  /\ [](call[RefreshReq].sends <= 1)
  /\ [][\A c \in Reqs :
          (Answered(c) /\ call'[c].resp = "401" /\ ~call[c].retry /\ ~isRefreshing) =>
             attempts' = attempts + 1]_vars

\* The store holds both tokens or neither.
PairOrNothing ==
  (localStorage.access_token = NoTok) <=> (localStorage.refresh_token = NoTok)

\* C17: the store always holds both tokens or neither; every change of the
\* store either removes both or writes the complete pair of a 2xx answer to
\* login or to a refresh; an answer lacking a token is never written.
C17_TokenPairAtomic ==
  /\ []PairOrNothing
  /\ [][(localStorage' # localStorage) =>
          \/ localStorage' = NoTokens
          \/ \E c \in Reqs :
               /\ Answered(c)
               /\ call[c].kind \in {"login", "manual", "auto"}
               /\ call'[c].resp = "ok"
               /\ call'[c].body[1] # NoTok /\ call'[c].body[2] # NoTok
               /\ localStorage' = [access_token |-> call'[c].body[1],
                                   refresh_token |-> call'[c].body[2]]]_vars

C17_Witness ==
  /\ chain = "catch"
  /\ call[RefreshReq].resp = "ok"
  /\ call[RefreshReq].body[1] # NoTok /\ call[RefreshReq].body[2] = NoTok
  /\ localStorage # NoTokens
  /\ localStorage.access_token # call[RefreshReq].body[1]

\* C18: a caller is registered at the tail of refreshSubscribers, and a
\* drain invokes the continuations in the order of the list: callers of one
\* settlement are notified in registration order.
C18_NotifiedInRegistrationOrder ==
  [][/\ (refreshSubscribers' # refreshSubscribers /\ refreshSubscribers' # <<>>) =>
          \E c \in Reqs : /\ c \notin Subscribed
                          /\ refreshSubscribers' = Append(refreshSubscribers, c)
     /\ (chain \in {"then", "catch"} /\ chain' = "finally") =>
          notified' = refreshSubscribers]_vars

C18_Witness ==
  /\ chain = "finally"
  /\ notified = <<2, 1>>
  /\ call[1].subs = 1 /\ call[2].subs = 1

\* C19: the POST /auth/refresh of the failure-triggered refresh is never in
\* refreshSubscribers, waiting for the refresh it belongs to.
C19_RefreshNeverOwnSubscriber ==
  /\ RefreshReq \notin Subscribed
  /\ call[RefreshReq].st # "pending"

\* C20: a login answered with an error, 401 included, settles with that
\* error, leaves the Token Store as it was and starts no refresh; a login
\* answered ok writes exactly the pair of the answer.
C20_LoginFailureLeavesStore ==
  [][\A c \in Calls :
       (call[c].kind = "login" /\ Answered(c)) =>
          IF call'[c].resp = "ok"
          THEN localStorage' = [access_token |-> call'[c].body[1],
                                refresh_token |-> call'[c].body[2]]
          ELSE /\ localStorage' = localStorage
               /\ attempts' = attempts
               /\ isRefreshing' = isRefreshing
               /\ refreshSubscribers' = refreshSubscribers
               /\ call'[c].st = "done"
               /\ call'[c].result = ErrOf(call'[c].resp)]_vars

\* The step in which manualRefreshToken of slot c returns.
ManualReturns(c) ==
  call'[c].kind = "manual" /\ call[c].st # "done" /\ call'[c].st = "done"

\* C21 (what manualRefreshToken returns): it returns true exactly when its
\* exchange was answered with a complete pair, which is then the stored
\* pair, and false otherwise, with the store cleared.
C21_ManualReturnValue ==
  [][\A c \in Calls :
       ManualReturns(c) =>
          /\ call'[c].result \in {"true", "false"}
          /\ (call'[c].result = "true") <=>
                (/\ Answered(c) /\ call'[c].resp = "ok"
                 /\ call'[c].body[1] # NoTok /\ call'[c].body[2] # NoTok)
          /\ (call'[c].result = "true") =>
                localStorage' = [access_token |-> call'[c].body[1],
                                 refresh_token |-> call'[c].body[2]]
          /\ (call'[c].result = "false") => localStorage' = NoTokens]_vars

\* C21: every manualRefreshToken settles, with the boolean described above.
C21_ManualRefreshSettles ==
  /\ C21_ManualReturnValue
  /\ \A c \in Calls : (call[c].kind = "manual") ~> (call[c].st = "done")

\* A logout has returned and the store holds no token.
LoggedOut ==
  /\ \E c \in Calls : call[c].kind = "logout" /\ call[c].st = "done"
  /\ localStorage = NoTokens

\* C22: once logout has returned, the store stays empty until a login
\* succeeds: only the 2xx answer to a login writes a pair into it.
C22_LogoutIsFinal ==
  [][(LoggedOut /\ localStorage' # NoTokens) =>
       \E c \in Calls : /\ call[c].kind = "login"
                        /\ Answered(c)
                        /\ call'[c].resp = "ok"]_vars
====
